---------------------------- MODULE Spec2Model ----------------------------
(***************************************************************************)
(* DeepPoly verifier: the verification pipeline (analyze), the            *)
(* optimization driver (train) and the ReLU relaxation                    *)
(* (ReLUTransformer.forward).                                              *)
(*                                                                         *)
(* The repository holds two versions of the pipeline and driver:          *)
(*   "code" : src/code/verifier.py  (early_stopping / lr_scheduling are   *)
(*            optional integer thresholds, max_epochs=None, lr = 5.0)     *)
(*   "src"  : src/src/verifier.py   (early_stopping is a flag,            *)
(*            max_epochs=100, lr = 1.0, Conv2d converted by conv_linear)  *)
(* Both are modelled; the variable `variant` says which one a call runs.  *)
(*                                                                         *)
(* Numbers.  Margins and losses are integers (only their order and sign   *)
(* matter to the driver).  The learning rate is counted in units of       *)
(* 1 / (10000 * 2^15), in which 5.0, 1.0, the floor 1e-4 and every        *)
(* halving the driver can produce from them are whole numbers.            *)
(* Python's None is the value None (-1); every modelled integer that can  *)
(* be None is otherwise >= 0.                                              *)
(*                                                                         *)
(* Specifications.                                                         *)
(*   Spec        : calls of analyze, train and ReLUTransformer.forward;    *)
(*                 the driver is followed through its stopping rules, the  *)
(*                 values of the slopes are not followed (alpha = <<>>).   *)
(*   SpecPolygon : the data analyze builds: the synthetic final layer,     *)
(*                 and Polygons made by create_from_input and chains of    *)
(*                 LinearTransformer and ReLUTransformer, in exact         *)
(*                 fractions.                                              *)
(*   SpecSlopes  : calls of train on chains whose slopes are followed      *)
(*                 through optimizer.step() and the clamp.                 *)
(***************************************************************************)
EXTENDS Integers, Sequences, FiniteSets, TLC

\* ------------------------------------------------------------------ bounds
\* Longest user network (number of layers before the synthetic margin layer).
MaxLayers == 3
\* Largest early_stopping / lr_scheduling threshold a caller passes.
MaxThreshold == 3
\* Largest finite max_epochs a direct caller of train passes.
MaxCap == 3
\* Forward passes explored in a direct call of train that no cap bounds
\* (max_epochs=None).
MaxIter == 7
\* The same for runs whose window holds at most two flags: deep enough for the
\* learning rate to be halved down to its floor.
MaxIterLong == 18
\* Forward passes explored in a call of train made by analyze.
MaxIterAnalyze == 2
\* The most negative lower bound of a margin.
MarginAbs == 2
\* ReLUTransformer.forward: neurons of the input polygon and the range of
\* their concrete bounds.
NumNeurons == 2
BoundAbs == 3
\* analyze: the largest number of classes (out_features of the last layer).
MaxClasses == 5
\* Longest chain of Linear and ReLU transformers applied to an input polygon.
MaxChain == 4
\* Slopes are counted in units of 1 / SlopeOne.
SlopeOne == 2
\* Largest rise -lr * grad one optimizer.step() gives a slope, in those units.
MaxDelta == 2

None == 0 - 1

\* ------------------------------------------------------------------ state
VARIABLES
    variant,            \* "code" | "src": which verifier.py runs
    entry,              \* "idle" | "analyze" | "train": the function called
    net,                \* analyze: the kinds of net.children()
    early_stopping,     \* argument (None, or a threshold; a flag in "src")
    lr_scheduling,      \* argument (None, or a threshold)
    max_epochs,         \* train's argument (None or a cap)
    pc,                 \* control point of the call
    depth,              \* analyze: index of the next layer of net_layers
    transformer_layers, \* analyze: chain built so far; train: polygon_model
    flattened,          \* analyze ("src"): a FlattenTransformer was added
    location,           \* analyze ("src"): index into input_size
    fault,              \* the exception raised, or NoFault
    trainable,          \* train: an optimizer exists
    lr,                 \* optimizer.param_groups[0]["lr"]
    epoch,              \* train: epoch
    previous_loss,      \* train: previous_loss (None or a loss)
    loss_rising,        \* train: the deque of "loss did not improve" flags
    lower_bounds,       \* margins of the latest forward pass
    loss,               \* loss of the latest iteration (None: not computed)
    result,             \* train's return value <<verified, epoch>>, or NoResult
    passes,             \* number of forward passes run by this call
    steps,              \* number of optimizer.step() + clamp rounds run
    strictly,           \* every loss since the second pass exceeded the previous
    x_bounds,           \* ReLUTransformer.forward: x.evaluate(), <<l_bound, u_bound>>
    relu_polygon,       \* ReLUTransformer.forward: the Polygon it returns
    n_classes,          \* analyze: n_classes
    true_label,         \* analyze: true_label
    final_layer,        \* analyze: final_layer, [weight, bias]
    polygons,           \* the Polygons built so far, root first; each one's
                        \* parent is the one before it
    negative_slope,     \* per transformer of the chain: its negative_slope
    alpha,              \* per transformer of the chain: its slopes alpha, one
                        \* per crossing neuron (<<>>: no slope parameters)
    stepped             \* alpha as the latest optimizer.step() left it

vars == <<variant, entry, net, early_stopping, lr_scheduling, max_epochs, pc,
          depth, transformer_layers, flattened, location, fault, trainable, lr,
          epoch, previous_loss, loss_rising, lower_bounds, loss, result,
          passes, steps, strictly, x_bounds, relu_polygon,
          n_classes, true_label, final_layer, polygons,
          negative_slope, alpha, stepped>>

reluVars == <<x_bounds, relu_polygon>>
dataVars == <<n_classes, true_label, final_layer, polygons>>
slopeVars == <<negative_slope, alpha, stepped>>
analyzeVars == <<net, depth, flattened, location>>
trainVars == <<trainable, lr, epoch, previous_loss, loss_rising, lower_bounds,
               loss, result, passes, steps, strictly>>

NoFault == [type |-> "none", message |-> ""]
NoResult == <<>>

\* ------------------------------------------------------------------ helpers
Max(a, b) == IF a >= b THEN a ELSE b

RECURSIVE SumSeq(_)
SumSeq(s) == IF s = <<>> THEN 0 ELSE Head(s) + SumSeq(Tail(s))

Abs(x) == IF x < 0 THEN 0 - x ELSE x

\* x or 0, for an Optional[int]
OrZero(x) == IF x = None \/ x = 0 THEN 0 ELSE x

\* ------------------------------------------------------------------ layers
\* Layer kinds of torch.nn that analyze dispatches on, and two it does not know.
\* Bilinear, like Linear, has an out_features attribute; Tanh has none.
KnownKinds == {"Flatten", "Linear", "ReLU", "LeakyReLU", "Conv2d"}
UnknownKinds == {"Tanh", "Bilinear"}
LayerKinds == KnownKinds \cup UnknownKinds

HasOutFeatures(kind) == kind \in {"Linear", "Bilinear"}

Nets == UNION {[1..n -> LayerKinds] : n \in 1..MaxLayers}

\* net_layers = list(net.children()) + [final_layer]
NetLayers(n) == Append(n, "Linear")

\* A transformer of the chain: its class and the number of tensors it
\* registers as torch parameters.
Transformer(kind, params) == [kind |-> kind, params |-> params]

FlattenTransformer == Transformer("Flatten", 0)
\* LinearTransformer(layer.weight.data, layer.bias.data): plain tensors.
LinearTransformer == Transformer("Linear", 0)
\* LinearTransformer(fc.weight, fc.bias): fc.weight and fc.bias are
\* nn.Parameter objects, and assigning them to attributes of a Module
\* registers them as parameters of the transformer.
LinearTransformerOfConv == Transformer("Linear", 2)
Conv2dTransformer == Transformer("Conv2d", 0)
\* LeakyReLUTransformer(negative_slope, init_polygon): its slopes alpha are
\* one parameter tensor, present when init_polygon has a crossing neuron.
LeakyReLUTransformer(crossing) == Transformer("LeakyReLU", IF crossing THEN 1 ELSE 0)

\* len(list(polygon_model.parameters()))
RECURSIVE NumParameters(_)
NumParameters(chain) ==
    IF chain = <<>> THEN 0
    ELSE Head(chain).params + NumParameters(Tail(chain))

\* input_size of the "src" analyze: one entry for the input and one per
\* leading Conv2d layer of net.
RECURSIVE LeadingConvs(_)
LeadingConvs(n) ==
    IF n = <<>> \/ Head(n) # "Conv2d" THEN 0
    ELSE 1 + LeadingConvs(Tail(n))

InputSizeLen(n) == 1 + LeadingConvs(n)

\* UnknownLayer with a message that does not name the layer kind.
UnknownLayer_Unnamed(kind) == [type |-> "Exception", message |-> "layer"]

UnknownLayer(kind) == [type |-> "Exception", message |-> kind]

\* ------------------------------------------------------------------ train: pure parts
\* The margins a forward pass can produce: two margins (three classes); every
\* positive lower bound acts on the driver like 1.
MarginVectors == {<<a, b>> : a \in (0 - MarginAbs)..1, b \in (0 - 1)..1}

\* Verified with >= in place of >: a zero margin would count as certified.
Verified_NonStrict(lb) == \A i \in DOMAIN lb : lb[i] >= 0

\* torch.all(lower_bounds > 0)
Verified(lb) == \A i \in DOMAIN lb : lb[i] > 0

\* Loss without the clamp: positive margins would add to the loss.
Loss_Unclamped(lb) == SumSeq([i \in DOMAIN lb |-> Abs(lb[i])])

\* lower_bounds.clamp(max=0).abs().sum()
Loss(lb) == SumSeq([i \in DOMAIN lb |-> Abs(IF lb[i] > 0 THEN 0 ELSE lb[i])])

\* history_size = max(early_stopping or 0, lr_scheduling or 0)
HistorySize(es, lrs) == Max(OrZero(es), OrZero(lrs))

\* maxlen of collections.deque(maxlen=int(2 * history_size))
DequeMaxLen(es, lrs) == 2 * HistorySize(es, lrs)

\* deque.append: the oldest entries fall out once maxlen is exceeded
DequeAppend(dq, x, maxlen) ==
    LET full == Append(dq, x)
    IN  IF Len(full) <= maxlen THEN full
        ELSE SubSeq(full, Len(full) - maxlen + 1, Len(full))

\* sum(1 for is_rising in loss_rising if is_rising)
NumberOfRising(dq) == Cardinality({i \in DOMAIN dq : dq[i]})

\* IsRising with the comparison turned round: a falling loss would be flagged.
IsRising_Inverted(l, prev) == prev # None /\ l <= prev

\* previous_loss is not None and loss.item() >= previous_loss.item()
IsRising(l, prev) == prev # None /\ l >= prev

\* Learning rates, in units of 1 / (10000 * 2^15).
LrOne == 10000 * 32768
LR_CODE == 5 * LrOne
LR_SRC == LrOne
LR_MIN == LrOne \div 10000

\* lr_scheduling is not None and number_of_rising >= lr_scheduling and loss_rising[-1]
HalveCondition(lrs, dq) ==
    /\ lrs # None
    /\ NumberOfRising(dq) >= lrs
    /\ dq[Len(dq)]

\* Halved without the floor.
Halved_NoFloor(rate) == rate \div 2

\* optimizer.param_groups[0]["lr"] = max(lr / 2, 1e-4)
Halved(rate) == Max(rate \div 2, LR_MIN)

\* EarlyStopCondition with > in place of >=: the stop would come one flag late.
EarlyStopCondition_Late(es, dq) == es # None /\ NumberOfRising(dq) > es

\* early_stopping is not None and number_of_rising >= early_stopping
EarlyStopCondition(es, dq) == es # None /\ NumberOfRising(dq) >= es

\* LoopCondition off by one: one pass more than the cap.
LoopCondition_OffByOne(me, ep) == me = None \/ ep <= me + 1

\* while max_epochs is None or epoch <= max_epochs
LoopCondition(me, ep) == me = None \/ ep <= me

\* Truth value of the "src" early_stopping flag (None, False/0, True/1)
Truthy(x) == x # None /\ x # 0

\* Forward passes explored: a call made by analyze is followed for
\* MaxIterAnalyze passes, a direct call without a cap for IterCap passes, a
\* direct call with a cap to its end.
IterCap == IF HistorySize(early_stopping, lr_scheduling) <= 1 THEN MaxIterLong ELSE MaxIter
WithinModelBound ==
    IF entry = "analyze" THEN passes < MaxIterAnalyze
    ELSE (max_epochs # None \/ passes < IterCap)

\* ------------------------------------------------------------------ train: slopes
Min(a, b) == IF a <= b THEN a ELSE b

\* LeakyReLUTransformer.clamp(): every slope back into [negative_slope, 1]
LeakyClamp(a, s) == [n \in DOMAIN a |-> Max(s, Min(a[n], SlopeOne))]

\* The slopes a LeakyReLUTransformer starts with, one per crossing neuron of
\* init_polygon: the slope of the tie-break choice, negative_slope or 1.
LeakyInitAlpha(s, crossing) ==
    IF crossing THEN {<<s>>, <<SlopeOne>>} ELSE {<<>>}

\* The transformers of the chain that hold slopes.
SlopeLayers(a) == {i \in DOMAIN a : a[i] # <<>>}

\* The changes lr * grad one optimizer.step() can make to the slopes a: a
\* rise of MaxDelta, none (a zero gradient), or a fall of one unit.
Deltas == {0 - MaxDelta, 0, 1}
Updates(a) ==
    {[i \in DOMAIN a |-> [n \in DOMAIN a[i] |-> f[i]]] : f \in [SlopeLayers(a) -> Deltas]}

\* optimizer.step(): p = p - lr * grad for every parameter p
OptimizerStep(a, d) == [i \in DOMAIN a |-> [n \in DOMAIN a[i] |-> a[i][n] - d[i][n]]]

\* for layer in polygon_model.children():
\*     if isinstance(layer, LeakyReLUTransformer): layer.clamp()
ClampSlopes(chain, ns, a) ==
    [i \in DOMAIN a |-> IF chain[i].kind = "LeakyReLU" THEN LeakyClamp(a[i], ns[i]) ELSE a[i]]

\* StepAndClamp in the other order: the clamp before the step.
ClampThenStep(chain, ns, a, d) == OptimizerStep(ClampSlopes(chain, ns, a), d)

\* optimizer.step() and, after it, the clamp of every LeakyReLUTransformer
StepAndClamp(chain, ns, a, d) == ClampSlopes(chain, ns, OptimizerStep(a, d))

\* ------------------------------------------------------------------ Init
Init ==
    /\ variant = "code"
    /\ entry = "idle"
    /\ net = <<>>
    /\ early_stopping = None
    /\ lr_scheduling = None
    /\ max_epochs = None
    /\ pc = "idle"
    /\ depth = 0
    /\ transformer_layers = <<>>
    /\ flattened = FALSE
    /\ location = 0
    /\ fault = NoFault
    /\ trainable = FALSE
    /\ lr = 0
    /\ epoch = 0
    /\ previous_loss = None
    /\ loss_rising = <<>>
    /\ lower_bounds = <<>>
    /\ loss = None
    /\ result = NoResult
    /\ passes = 0
    /\ steps = 0
    /\ strictly = TRUE
    /\ x_bounds = <<>>
    /\ relu_polygon = <<>>
    /\ n_classes = 0
    /\ true_label = 0
    /\ final_layer = <<>>
    /\ polygons = <<>>
    /\ negative_slope = <<>>
    /\ alpha = <<>>
    /\ stepped = <<>>

\* ------------------------------------------------------------------ train
\* The statements of train before its loop, for the chain and arguments given.
TrainSetup(v, chain, me, es, lrs) ==
    /\ variant' = v
    /\ transformer_layers' = chain
    /\ max_epochs' = me
    /\ early_stopping' = es
    /\ lr_scheduling' = lrs
    /\ trainable' = (NumParameters(chain) > 0)
    /\ lr' = IF NumParameters(chain) > 0
             THEN (IF v = "code" THEN LR_CODE ELSE LR_SRC)
             ELSE 0
    /\ epoch' = 1
    /\ previous_loss' = None
    /\ loss_rising' = <<>>
    /\ lower_bounds' = <<>>
    /\ loss' = None
    /\ result' = NoResult
    /\ passes' = 0
    /\ steps' = 0
    /\ strictly' = TRUE
    /\ fault' = NoFault
    /\ pc' = "train"

\* Thresholds a caller passes for early_stopping / lr_scheduling.
Thresholds == {None} \cup (1..MaxThreshold)
Caps == {None} \cup (0..MaxCap)

\* Chains handed to train by a direct caller: without and with slopes.
DirectChains ==
    { <<LinearTransformer>>,
      <<LinearTransformer, LeakyReLUTransformer(TRUE), LinearTransformer>> }

\* A direct call of train (code/verifier.py).
CallTrain ==
    /\ pc = "idle"
    /\ \E chain \in DirectChains, me \in Caps, es \in Thresholds, lrs \in Thresholds :
           TrainSetup("code", chain, me, es, lrs)
    /\ entry' = "train"
    /\ UNCHANGED analyzeVars
    /\ UNCHANGED reluVars
    /\ UNCHANGED dataVars
    /\ UNCHANGED slopeVars

\* A direct call of train (src/verifier.py): early_stopping is a flag.
CallTrainSrc ==
    /\ pc = "idle"
    /\ \E chain \in DirectChains, me \in Caps, es \in {0, 1} :
           TrainSetup("src", chain, me, es, None)
    /\ entry' = "train"
    /\ UNCHANGED analyzeVars
    /\ UNCHANGED reluVars
    /\ UNCHANGED dataVars
    /\ UNCHANGED slopeVars

\* return verified, epoch
Return(v, ep) ==
    /\ result' = <<v, ep>>
    /\ pc' = "returned"

\* One iteration of the loop of train (code/verifier.py).
TrainIteration ==
    /\ pc = "train"
    /\ variant = "code"
    /\ LoopCondition(max_epochs, epoch)
    /\ WithinModelBound
    /\ \E lb \in MarginVectors :
        /\ lower_bounds' = lb
        /\ passes' = passes + 1
        /\ IF Verified(lb) THEN
               /\ Return(TRUE, epoch)
               /\ loss' = None
               /\ UNCHANGED <<lr, epoch, previous_loss, loss_rising, steps, strictly,
                              alpha, stepped>>
           ELSE IF ~trainable THEN
               /\ Return(FALSE, epoch)
               /\ loss' = None
               /\ UNCHANGED <<lr, epoch, previous_loss, loss_rising, steps, strictly,
                              alpha, stepped>>
           ELSE
               LET l == Loss(lb)
                   dq == DequeAppend(loss_rising, IsRising(l, previous_loss),
                                     DequeMaxLen(early_stopping, lr_scheduling))
               IN  /\ loss' = l
                   /\ loss_rising' = dq
                   /\ strictly' = (strictly /\ (previous_loss = None \/ l > previous_loss))
                   /\ lr' = IF HalveCondition(lr_scheduling, dq) THEN Halved(lr) ELSE lr
                   /\ IF EarlyStopCondition(early_stopping, dq) THEN
                          /\ Return(FALSE, epoch)
                          /\ UNCHANGED <<epoch, previous_loss, steps, alpha, stepped>>
                      ELSE
                          /\ previous_loss' = l
                          /\ \E d \in Updates(alpha) :
                                 /\ stepped' = OptimizerStep(alpha, d)
                                 /\ alpha' = StepAndClamp(transformer_layers,
                                                          negative_slope, alpha, d)
                          /\ steps' = steps + 1
                          /\ epoch' = epoch + 1
                          /\ UNCHANGED <<result, pc>>
    /\ UNCHANGED <<variant, entry, early_stopping, lr_scheduling, max_epochs,
                   transformer_layers, fault, trainable>>
    /\ UNCHANGED analyzeVars
    /\ UNCHANGED reluVars
    /\ UNCHANGED dataVars
    /\ UNCHANGED negative_slope

\* One iteration of the loop of train (src/verifier.py).
TrainIterationSrc ==
    /\ pc = "train"
    /\ variant = "src"
    /\ LoopCondition(max_epochs, epoch)
    /\ WithinModelBound
    /\ \E lb \in MarginVectors :
        /\ lower_bounds' = lb
        /\ passes' = passes + 1
        /\ IF Verified(lb) THEN
               /\ Return(TRUE, epoch)
               /\ loss' = None
               /\ UNCHANGED <<epoch, previous_loss, steps, strictly, alpha, stepped>>
           ELSE IF ~trainable THEN
               /\ Return(FALSE, epoch)
               /\ loss' = None
               /\ UNCHANGED <<epoch, previous_loss, steps, strictly, alpha, stepped>>
           ELSE
               LET l == Loss(lb)
               IN  /\ loss' = l
                   /\ strictly' = (strictly /\ (previous_loss = None \/ l > previous_loss))
                   /\ IF Truthy(early_stopping) /\ IsRising(l, previous_loss) THEN
                          /\ Return(FALSE, epoch)
                          /\ UNCHANGED <<epoch, previous_loss, steps, alpha, stepped>>
                      ELSE
                          /\ previous_loss' = IF Truthy(early_stopping) THEN l ELSE previous_loss
                          /\ \E d \in Updates(alpha) :
                                 /\ stepped' = OptimizerStep(alpha, d)
                                 /\ alpha' = StepAndClamp(transformer_layers,
                                                          negative_slope, alpha, d)
                          /\ steps' = steps + 1
                          /\ epoch' = epoch + 1
                          /\ UNCHANGED <<result, pc>>
    /\ UNCHANGED <<variant, entry, early_stopping, lr_scheduling, max_epochs,
                   transformer_layers, fault, trainable, lr, loss_rising>>
    /\ UNCHANGED analyzeVars
    /\ UNCHANGED reluVars
    /\ UNCHANGED dataVars
    /\ UNCHANGED negative_slope

\* The loop condition fails: return False, epoch (both versions).
TrainExit ==
    /\ pc = "train"
    /\ ~LoopCondition(max_epochs, epoch)
    /\ Return(FALSE, epoch)
    /\ UNCHANGED <<variant, entry, early_stopping, lr_scheduling, max_epochs,
                   transformer_layers, fault, trainable, lr, epoch, previous_loss,
                   loss_rising, lower_bounds, loss, passes, steps, strictly>>
    /\ UNCHANGED analyzeVars
    /\ UNCHANGED reluVars
    /\ UNCHANGED dataVars
    /\ UNCHANGED slopeVars

\* ------------------------------------------------------------------ analyze
\* Thresholds the pipeline is called with: absent, or the command line's 1.
AnalyzeThresholds == {None, 1}

\* max_epochs analyze passes to train: None (code/verifier.py), 100 (src/verifier.py)
MAX_EPOCHS_SRC == 100
AnalyzeMaxEpochs(v) == IF v = "code" THEN None ELSE MAX_EPOCHS_SRC

Raise(f) ==
    /\ fault' = f
    /\ pc' = "raised"

\* analyze up to its loop over net_layers: n_classes reads out_features of
\* the last layer of net, which only some layer classes have.
StartAnalyze(v, n, es, lrs) ==
    /\ variant' = v
    /\ net' = n
    /\ early_stopping' = es
    /\ lr_scheduling' = lrs
    /\ entry' = "analyze"
    /\ transformer_layers' = <<>>
    /\ flattened' = FALSE
    /\ location' = 0
    /\ depth' = 0
    /\ IF HasOutFeatures(n[Len(n)])
       THEN /\ pc' = "walk"
            /\ fault' = NoFault
       ELSE Raise([type |-> "AttributeError", message |-> n[Len(n)]])
    /\ UNCHANGED max_epochs
    /\ UNCHANGED trainVars
    /\ UNCHANGED reluVars
    /\ UNCHANGED dataVars
    /\ UNCHANGED slopeVars

\* A call of analyze (code/verifier.py).
CallAnalyze ==
    /\ pc = "idle"
    /\ \E n \in Nets, es \in AnalyzeThresholds, lrs \in AnalyzeThresholds :
           StartAnalyze("code", n, es, lrs)

\* A call of analyze (src/verifier.py): early_stopping is a flag.
CallAnalyzeSrc ==
    /\ pc = "idle"
    /\ \E n \in Nets, es \in {0, 1} :
           StartAnalyze("src", n, es, None)

\* The layer the loop is at (depth counts from 0, as enumerate does).
CurrentLayer == NetLayers(net)[depth + 1]

\* The branch of the loop body of analyze (code/verifier.py) for one layer:
\* the transformers it adds, or <<>> with the layer unknown.
KnownLayer(kind) == kind \in {"Flatten", "Linear", "ReLU", "LeakyReLU", "Conv2d"}

LayerTransformers(kind, d, crossing) ==
    CASE kind = "Flatten" -> <<FlattenTransformer>>
      [] kind = "Linear" -> <<LinearTransformer>>
      [] kind = "ReLU" -> <<LeakyReLUTransformer(crossing)>>
      [] kind = "LeakyReLU" -> <<LeakyReLUTransformer(crossing)>>
      [] kind = "Conv2d" -> IF d = 0 THEN <<FlattenTransformer, Conv2dTransformer>>
                            ELSE <<Conv2dTransformer>>

\* One iteration of the loop over net_layers (code/verifier.py).
AnalyzeLayer ==
    /\ pc = "walk"
    /\ variant = "code"
    /\ depth < Len(NetLayers(net))
    /\ IF KnownLayer(CurrentLayer)
       THEN /\ \E crossing \in BOOLEAN :
                  transformer_layers' =
                      transformer_layers \o LayerTransformers(CurrentLayer, depth, crossing)
            /\ depth' = depth + 1
            /\ UNCHANGED <<pc, fault>>
       ELSE /\ Raise(UnknownLayer(CurrentLayer))
            /\ UNCHANGED <<transformer_layers, depth>>
    /\ UNCHANGED <<variant, entry, net, early_stopping, lr_scheduling, max_epochs,
                   flattened, location>>
    /\ UNCHANGED trainVars
    /\ UNCHANGED reluVars
    /\ UNCHANGED dataVars
    /\ UNCHANGED slopeVars

\* The branches of the loop body of analyze (src/verifier.py).
KnownLayerSrc(kind, flat) ==
    \/ (kind = "Flatten" /\ ~flat)
    \/ kind \in {"Linear", "ReLU", "LeakyReLU", "Conv2d"}

LayerTransformersSrc(kind, flat, crossing) ==
    CASE kind = "Flatten" -> <<FlattenTransformer>>
      [] kind = "Linear" -> <<LinearTransformer>>
      [] kind = "ReLU" -> <<LeakyReLUTransformer(crossing)>>
      [] kind = "LeakyReLU" -> <<LeakyReLUTransformer(crossing)>>
      [] kind = "Conv2d" -> IF ~flat THEN <<FlattenTransformer, LinearTransformerOfConv>>
                            ELSE <<LinearTransformerOfConv>>

\* One iteration of the loop over net_layers (src/verifier.py).
AnalyzeLayerSrc ==
    /\ pc = "walk"
    /\ variant = "src"
    /\ depth < Len(NetLayers(net))
    /\ IF ~KnownLayerSrc(CurrentLayer, flattened) THEN
           /\ Raise(UnknownLayer(CurrentLayer))
           /\ UNCHANGED <<transformer_layers, depth, flattened, location>>
       ELSE IF CurrentLayer = "Conv2d" /\ location >= InputSizeLen(net) THEN
           \* input_size[location] of conv_linear(layer, input_size[location])
           /\ Raise([type |-> "IndexError", message |-> "Conv2d"])
           /\ UNCHANGED <<transformer_layers, depth, flattened, location>>
       ELSE
           /\ \E crossing \in BOOLEAN :
                  transformer_layers' =
                      transformer_layers \o LayerTransformersSrc(CurrentLayer, flattened, crossing)
           /\ depth' = depth + 1
           /\ location' = IF CurrentLayer = "Conv2d" THEN location + 1 ELSE location
           /\ flattened' = (flattened \/ CurrentLayer = "Conv2d")
           /\ UNCHANGED <<pc, fault>>
    /\ UNCHANGED <<variant, entry, net, early_stopping, lr_scheduling, max_epochs>>
    /\ UNCHANGED trainVars
    /\ UNCHANGED reluVars
    /\ UNCHANGED dataVars
    /\ UNCHANGED slopeVars

\* The chain is complete: analyze calls train on it.
AnalyzeCallTrain ==
    /\ pc = "walk"
    /\ depth = Len(NetLayers(net))
    /\ TrainSetup(variant, transformer_layers, AnalyzeMaxEpochs(variant),
                  early_stopping, lr_scheduling)
    /\ UNCHANGED <<entry, net, depth, flattened, location>>
    /\ UNCHANGED reluVars
    /\ UNCHANGED dataVars
    /\ UNCHANGED slopeVars

\* ------------------------------------------------------------------ ReLUTransformer
\* Tensor entries are exact fractions <<numerator, denominator>>, denominator > 0.
Frac(n, d) == <<n, d>>
FracEq(a, b) == a[1] * b[2] = b[1] * a[2]
Zero == Frac(0, 1)
One == Frac(1, 1)
FracMul(a, b) == Frac(a[1] * b[1], a[2] * b[2])
FracNeg(a) == Frac(0 - a[1], a[2])
FracAdd(a, b) == Frac(a[1] * b[2] + b[1] * a[2], a[2] * b[2])
FracSub(a, b) == FracAdd(a, FracNeg(b))
\* a / b for b > 0
FracDiv(a, b) == Frac(a[1] * b[2], a[2] * b[1])
FracLeq(a, b) == a[1] * b[2] <= b[1] * a[2]
FracLt(a, b) == a[1] * b[2] < b[1] * a[2]

\* The same value in lowest terms.
RECURSIVE GCD(_, _)
GCD(a, b) == IF b = 0 THEN a ELSE GCD(b, a % b)
Reduce(a) ==
    LET g == GCD(Abs(a[1]), a[2])
    IN  Frac(a[1] \div g, a[2] \div g)

\* The sequence s itself, evaluated once into an explicit tuple.
AsTuple(s) == s \o <<>>
AsMatrix(m) == AsTuple([i \in DOMAIN m |-> AsTuple(m[i])])

\* torch.eye(n)[i]
EyeRow(n, i) == AsTuple([j \in 1..n |-> IF i = j THEN One ELSE Zero])
\* a row of torch.zeros((n, n))
ZeroRow(n) == AsTuple([j \in 1..n |-> Zero])

\* The four tensors forward builds (batch of one): rows of coefficients and biases.
Tensors(lc, lb, uc, ub) ==
    [l_coefs |-> AsMatrix(lc), l_bias |-> AsTuple(lb), u_coefs |-> AsMatrix(uc), u_bias |-> AsTuple(ub)]

\* slope = u_bound / (u_bound - l_bound), of a crossing neuron
Slope(l, u) == FracDiv(u, FracSub(u, l))

\* relu_I: writes Variant A into the rows of the crossing neurons of the
\* tensors it is given, and returns those tensors.
relu_I(l_bound, u_bound, t, is_crossing) ==
    LET n == Len(l_bound)
    IN  Tensors(
            [i \in 1..n |-> IF is_crossing[i] THEN ZeroRow(n) ELSE t.l_coefs[i]],
            [i \in 1..n |-> IF is_crossing[i] THEN Zero ELSE t.l_bias[i]],
            [i \in 1..n |-> IF is_crossing[i]
                            THEN [j \in 1..n |-> FracMul(EyeRow(n, i)[j], Slope(l_bound[i], u_bound[i]))]
                            ELSE t.u_coefs[i]],
            [i \in 1..n |-> IF is_crossing[i]
                            THEN FracMul(FracNeg(Slope(l_bound[i], u_bound[i])), l_bound[i])
                            ELSE t.u_bias[i]])

\* relu_II: writes Variant B into the rows of the crossing neurons of the
\* tensors it is given, and returns those tensors.
relu_II(l_bound, u_bound, t, is_crossing) ==
    LET n == Len(l_bound)
    IN  Tensors(
            [i \in 1..n |-> IF is_crossing[i] THEN EyeRow(n, i) ELSE t.l_coefs[i]],
            [i \in 1..n |-> IF is_crossing[i] THEN Zero ELSE t.l_bias[i]],
            [i \in 1..n |-> IF is_crossing[i]
                            THEN [j \in 1..n |-> FracMul(EyeRow(n, i)[j], Slope(l_bound[i], u_bound[i]))]
                            ELSE t.u_coefs[i]],
            [i \in 1..n |-> IF is_crossing[i]
                            THEN FracMul(FracNeg(Slope(l_bound[i], u_bound[i])), l_bound[i])
                            ELSE t.u_bias[i]])

\* torch.where(cond, a, b) on a coefficient tensor of shape (1, n, n): cond,
\* of shape (1, n), is broadcast along the last axis.
WhereCoefs(cond, a, b) ==
    [i \in DOMAIN a |-> [j \in DOMAIN a[i] |-> IF cond[j] THEN a[i][j] ELSE b[i][j]]]

\* torch.where(cond, a, b) on a bias tensor of shape (1, n)
WhereBias(cond, a, b) == [i \in DOMAIN a |-> IF cond[i] THEN a[i] ELSE b[i]]

\* ReLUTransformer.forward, up to the Polygon constructor: the coefficients
\* and biases of the Polygon it returns, for the concrete bounds (fractions)
\* of its input.
forward(l_bound, u_bound) ==
    LET n == Len(l_bound)
        is_always_negative == AsTuple([i \in 1..n |-> FracLeq(u_bound[i], Zero)])
        is_always_positive == AsTuple([i \in 1..n |-> FracLeq(Zero, l_bound[i])])
        \* zeros, rows of always-negative neurons set to 0, then rows of
        \* always-positive neurons set to the identity
        t0 == Tensors(
                  [i \in 1..n |-> IF is_always_positive[i] THEN EyeRow(n, i) ELSE ZeroRow(n)],
                  [i \in 1..n |-> Zero],
                  [i \in 1..n |-> IF is_always_positive[i] THEN EyeRow(n, i) ELSE ZeroRow(n)],
                  [i \in 1..n |-> Zero])
        is_crossing == AsTuple([i \in 1..n |-> ~(is_always_negative[i] \/ is_always_positive[i])])
        \* relu_I and relu_II are handed the same four tensors and write them
        \* in place: relu_II overwrites what relu_I wrote, and the tuples
        \* poly_I and poly_II both hold those tensors as relu_II left them.
        written_I == relu_I(l_bound, u_bound, t0, is_crossing)
        written_II == relu_II(l_bound, u_bound, written_I, is_crossing)
        poly_I == written_II
        poly_II == written_II
        cond == AsTuple([i \in 1..n |-> FracLeq(u_bound[i], FracNeg(l_bound[i]))])
    IN  Tensors(WhereCoefs(cond, poly_I.l_coefs, poly_II.l_coefs),
                WhereBias(cond, poly_I.l_bias, poly_II.l_bias),
                WhereCoefs(cond, poly_I.u_coefs, poly_II.u_coefs),
                WhereBias(cond, poly_I.u_bias, poly_II.u_bias))

\* Concrete bounds x.evaluate() of the input polygon: per neuron l <= u.
Intervals ==
    {iv \in ((0 - BoundAbs)..BoundAbs) \X ((0 - BoundAbs)..BoundAbs) : iv[1] <= iv[2]}

\* A call of ReLUTransformer.forward on a polygon of NumNeurons neurons.
CallForward ==
    /\ pc = "idle"
    /\ \E iv \in [1..NumNeurons -> Intervals] :
          LET l_bound == [i \in 1..NumNeurons |-> iv[i][1]]
              u_bound == [i \in 1..NumNeurons |-> iv[i][2]]
          IN  /\ x_bounds' = <<l_bound, u_bound>>
              /\ relu_polygon' = forward([i \in 1..NumNeurons |-> Frac(l_bound[i], 1)],
                                          [i \in 1..NumNeurons |-> Frac(u_bound[i], 1)])
    /\ entry' = "forward"
    /\ pc' = "forward_done"
    /\ UNCHANGED <<variant, early_stopping, lr_scheduling, max_epochs,
                   transformer_layers, fault>>
    /\ UNCHANGED analyzeVars
    /\ UNCHANGED trainVars
    /\ UNCHANGED dataVars
    /\ UNCHANGED slopeVars

Next ==
    \/ CallForward
    \/ CallTrain
    \/ CallTrainSrc
    \/ CallAnalyze
    \/ CallAnalyzeSrc
    \/ AnalyzeLayer
    \/ AnalyzeLayerSrc
    \/ AnalyzeCallTrain
    \/ TrainIteration
    \/ TrainIterationSrc
    \/ TrainExit

Spec == Init /\ [][Next]_vars

\* ------------------------------------------------------------------ analyze: final layer
\* Matrices are sequences of rows; class c (0-based, as in Python) is column
\* c + 1, and row r of a tensor is element r + 1.

\* -torch.eye(n)
NegEye(n) == [i \in 1..n |-> [j \in 1..n |-> IF i = j THEN 0 - 1 ELSE 0]]

\* m[from:to] for 0 <= from, to <= len(m); empty when from >= to
Slice(m, from, to) == IF from >= to THEN <<>> ELSE SubSeq(m, from + 1, to)

\* WithoutRow dropping the last row instead of row t.
WithoutRow_Last(m, t) == Slice(m, 0, Len(m) - 1)

\* torch.cat((m[:t], m[t + 1:]))
WithoutRow(m, t) == Slice(m, 0, t) \o Slice(m, t + 1, Len(m))

\* m[:, t] = v
SetColumn(m, t, v) ==
    [i \in DOMAIN m |-> [j \in DOMAIN m[i] |-> IF j = t + 1 THEN v ELSE m[i][j]]]

\* final_layer_weights as analyze leaves it
FinalLayerWeights(n, t) == SetColumn(WithoutRow(NegEye(n), t), t, 1)

\* final_layer.bias.data[:] = 0.0, on the bias of Linear(n_classes, n_classes - 1)
FinalLayerBias(n) == [i \in 1..(n - 1) |-> 0]

\* The statements of analyze that build the synthetic final layer, for a
\* network of n classes and a true label t (the same in both versions).
CallFinalLayer ==
    /\ pc = "idle"
    /\ \E n \in 2..MaxClasses :
         \E t \in 0..(n - 1) :
            /\ n_classes' = n
            /\ true_label' = t
            /\ final_layer' = [weight |-> FinalLayerWeights(n, t),
                               bias |-> FinalLayerBias(n)]
    /\ entry' = "final_layer"
    /\ pc' = "final_layer_done"
    /\ UNCHANGED <<variant, early_stopping, lr_scheduling, max_epochs,
                   transformer_layers, fault>>
    /\ UNCHANGED analyzeVars
    /\ UNCHANGED trainVars
    /\ UNCHANGED reluVars
    /\ UNCHANGED polygons
    /\ UNCHANGED slopeVars

\* ------------------------------------------------------------------ Polygon
\* The matrix m with every entry in lowest terms.
LowestTerms(m) == AsMatrix([i \in DOMAIN m |-> [j \in DOMAIN m[i] |-> Reduce(m[i][j])]])

\* torch.clamp(m, min=0) and torch.clamp(m, max=0), on a matrix
ClampMin0(m) ==
    AsMatrix([i \in DOMAIN m |->
                [j \in DOMAIN m[i] |-> IF FracLt(m[i][j], Zero) THEN Zero ELSE m[i][j]]])
ClampMax0(m) ==
    AsMatrix([i \in DOMAIN m |->
                [j \in DOMAIN m[i] |-> IF FracLt(Zero, m[i][j]) THEN Zero ELSE m[i][j]]])

RECURSIVE FracSum(_)
FracSum(s) == IF s = <<>> THEN Zero ELSE Reduce(FracAdd(Head(s), FracSum(Tail(s))))

\* Number of columns of a matrix whose rows all have the same length
\* (0 for the root's coefficients, of shape (n, 0)).
Columns(m) == IF m = <<>> THEN 0 ELSE Len(m[1])

\* a @ b
MatMul(a, b) ==
    AsMatrix([i \in DOMAIN a |->
                [j \in 1..Columns(b) |->
                    FracSum([k \in DOMAIN b |-> FracMul(a[i][k], b[k][j])])]])

MatAdd(a, b) ==
    AsMatrix([i \in DOMAIN a |-> [j \in DOMAIN a[i] |-> Reduce(FracAdd(a[i][j], b[i][j]))]])

\* (m * v.unsqueeze(1)).sum(-1)
MulSum(m, v) ==
    AsTuple([i \in DOMAIN m |-> FracSum([k \in DOMAIN v |-> FracMul(m[i][k], v[k])])])

VecAdd(a, b) == AsTuple([i \in DOMAIN a |-> Reduce(FracAdd(a[i], b[i]))])

\* Substitute with the parent's lower and upper constraints exchanged.
Substitute_Swapped(t, parent) ==
    Tensors(
        MatAdd(MatMul(ClampMin0(t.l_coefs), parent.u_coefs),
               MatMul(ClampMax0(t.l_coefs), parent.l_coefs)),
        VecAdd(t.l_bias, VecAdd(MulSum(ClampMin0(t.l_coefs), parent.u_bias),
                                MulSum(ClampMax0(t.l_coefs), parent.l_bias))),
        MatAdd(MatMul(ClampMin0(t.u_coefs), parent.l_coefs),
               MatMul(ClampMax0(t.u_coefs), parent.u_coefs)),
        VecAdd(t.u_bias, VecAdd(MulSum(ClampMin0(t.u_coefs), parent.l_bias),
                                MulSum(ClampMax0(t.u_coefs), parent.u_bias))))

\* One round of the back-substitution loop of Polygon.__init__: the
\* constraints t rewritten over the inputs of parent.
Substitute(t, parent) ==
    Tensors(
        MatAdd(MatMul(ClampMin0(t.l_coefs), parent.l_coefs),
               MatMul(ClampMax0(t.l_coefs), parent.u_coefs)),
        VecAdd(t.l_bias, VecAdd(MulSum(ClampMin0(t.l_coefs), parent.l_bias),
                                MulSum(ClampMax0(t.l_coefs), parent.u_bias))),
        MatAdd(MatMul(ClampMin0(t.u_coefs), parent.u_coefs),
               MatMul(ClampMax0(t.u_coefs), parent.l_coefs)),
        VecAdd(t.u_bias, VecAdd(MulSum(ClampMin0(t.u_coefs), parent.u_bias),
                                MulSum(ClampMax0(t.u_coefs), parent.l_bias))))

\* while parent is not None: ...; parent = parent.parent.  ancestors is the
\* chain from the root to parent; the result is the tensors left at the end.
RECURSIVE BackSubstitute(_, _)
BackSubstitute(t, ancestors) ==
    IF ancestors = <<>> THEN t
    ELSE BackSubstitute(Substitute(t, ancestors[Len(ancestors)]),
                        SubSeq(ancestors, 1, Len(ancestors) - 1))

\* Polygon(l_coefs, u_coefs, l_bias, u_bias, parent), parent given with its
\* ancestors (<<>> for parent=None).
Polygon(t, ancestors) ==
    LET at_root == BackSubstitute(t, ancestors)
    IN  [l_coefs |-> t.l_coefs, u_coefs |-> t.u_coefs,
         l_bias |-> t.l_bias, u_bias |-> t.u_bias,
         l_bound |-> at_root.l_bias, u_bound |-> at_root.u_bias]

\* torch.clamp(x, min=0, max=1)
Clip01(x) == IF FracLt(x, Zero) THEN Zero ELSE IF FracLt(One, x) THEN One ELSE x

\* Polygon.create_from_input(input_tensor, eps), on the flattened input
create_from_input(input_tensor, eps) ==
    Polygon(Tensors([i \in DOMAIN input_tensor |-> <<>>],
                    [i \in DOMAIN input_tensor |-> Reduce(Clip01(FracSub(input_tensor[i], eps)))],
                    [i \in DOMAIN input_tensor |-> <<>>],
                    [i \in DOMAIN input_tensor |-> Reduce(Clip01(FracAdd(input_tensor[i], eps)))]),
            <<>>)

\* LinearTransformer(weight, bias).forward(x), x the last of chain
LinearForward(weight, bias, chain) == Polygon(Tensors(weight, bias, weight, bias), chain)

\* ReLUTransformer().forward(x), x the last of chain
ReLUForward(chain) ==
    LET x == chain[Len(chain)]
        t == forward(x.l_bound, x.u_bound)
    IN  Polygon(Tensors(LowestTerms(t.l_coefs),
                        [i \in DOMAIN t.l_bias |-> Reduce(t.l_bias[i])],
                        LowestTerms(t.u_coefs),
                        [i \in DOMAIN t.u_bias |-> Reduce(t.u_bias[i])]),
                chain)

\* The inputs of the modelled calls: images of two pixels, perturbation
\* sizes, and the weights and biases of Linear layers two neurons wide.
InputTensors == {<<Frac(0, 1), Frac(1, 2)>>, <<Frac(1, 1), Frac(1, 4)>>}
EpsValues == {Frac(0, 1), Frac(1, 4), Frac(1, 2)}
LinearWeights == {<< <<Frac(1, 1), Frac(1, 1)>>, <<Frac(1, 1), Frac(0 - 1, 1)>> >>,
                  << <<Frac(0 - 1, 1), Frac(1, 2)>>, <<Frac(0, 1), Frac(0 - 2, 1)>> >>}
LinearBiases == {<<Frac(0, 1), Frac(0, 1)>>, <<Frac(0 - 1, 1), Frac(1, 2)>>}

\* in_polygon = Polygon.create_from_input(inputs, eps=eps)
CallCreateFromInput ==
    /\ pc = "idle"
    /\ \E input_tensor \in InputTensors, eps \in EpsValues :
           polygons' = <<create_from_input(input_tensor, eps)>>
    /\ entry' = "polygon"
    /\ pc' = "chain"
    /\ UNCHANGED <<variant, early_stopping, lr_scheduling, max_epochs,
                   transformer_layers, fault>>
    /\ UNCHANGED analyzeVars
    /\ UNCHANGED trainVars
    /\ UNCHANGED reluVars
    /\ UNCHANGED <<n_classes, true_label, final_layer>>
    /\ UNCHANGED slopeVars

\* x = LinearTransformer(weight, bias)(x)
ApplyLinear ==
    /\ pc = "chain"
    /\ Len(polygons) <= MaxChain
    /\ \E weight \in LinearWeights, bias \in LinearBiases :
           polygons' = Append(polygons, LinearForward(weight, bias, polygons))
    /\ UNCHANGED <<variant, entry, early_stopping, lr_scheduling, max_epochs,
                   pc, transformer_layers, fault>>
    /\ UNCHANGED analyzeVars
    /\ UNCHANGED trainVars
    /\ UNCHANGED reluVars
    /\ UNCHANGED <<n_classes, true_label, final_layer>>
    /\ UNCHANGED slopeVars

\* x = ReLUTransformer()(x)
ApplyReLU ==
    /\ pc = "chain"
    /\ Len(polygons) <= MaxChain
    /\ polygons' = Append(polygons, ReLUForward(polygons))
    /\ UNCHANGED <<variant, entry, early_stopping, lr_scheduling, max_epochs,
                   pc, transformer_layers, fault>>
    /\ UNCHANGED analyzeVars
    /\ UNCHANGED trainVars
    /\ UNCHANGED reluVars
    /\ UNCHANGED <<n_classes, true_label, final_layer>>
    /\ UNCHANGED slopeVars

NextPolygon ==
    \/ CallFinalLayer
    \/ CallCreateFromInput
    \/ ApplyLinear
    \/ ApplyReLU

SpecPolygon == Init /\ [][NextPolygon]_vars

\* ------------------------------------------------------------------ train with slopes
\* Chains with one and with two activation transformers that hold slopes,
\* and the negative slopes of their layers (0.0 for ReLU), in units of
\* 1 / SlopeOne.
SlopeChains ==
    { <<LinearTransformer, LeakyReLUTransformer(TRUE), LinearTransformer>>,
      <<LinearTransformer, LeakyReLUTransformer(TRUE), LinearTransformer,
        LeakyReLUTransformer(TRUE), LinearTransformer>> }
NegativeSlopes == {0, 1}

\* The slopes the transformers of chain can start with.
InitialSlopes(chain, s) ==
    {a \in [DOMAIN chain -> {<<>>, <<s>>, <<SlopeOne>>}] :
        \A i \in DOMAIN chain :
            a[i] \in (IF chain[i].kind = "LeakyReLU"
                      THEN LeakyInitAlpha(s, chain[i].params > 0)
                      ELSE {<<>>})}

\* A direct call of train, with max_epochs = MaxCap and no stopping
\* threshold, on a chain whose slopes are followed.
CallTrainSlopes ==
    /\ pc = "idle"
    /\ \E v \in {"code", "src"}, chain \in SlopeChains, s \in NegativeSlopes :
           /\ TrainSetup(v, chain, MaxCap, IF v = "code" THEN None ELSE 0, None)
           /\ negative_slope' =
                  [i \in DOMAIN chain |-> IF chain[i].kind = "LeakyReLU" THEN s ELSE None]
           /\ alpha' \in InitialSlopes(chain, s)
    /\ stepped' = <<>>
    /\ entry' = "train"
    /\ UNCHANGED analyzeVars
    /\ UNCHANGED reluVars
    /\ UNCHANGED dataVars

NextSlopes ==
    \/ CallTrainSlopes
    \/ TrainIteration
    \/ TrainIterationSrc
    \/ TrainExit

SpecSlopes == Init /\ [][NextSlopes]_vars

\* ------------------------------------------------------------------ claims: vocabulary
\* train has been entered by this call.
InTrain == pc \in {"train", "returned"}

\* Every margin lower bound of the latest forward pass is strictly positive.
AllMarginsPositive == \A i \in DOMAIN lower_bounds : lower_bounds[i] > 0

\* train returned from inside the iteration of the latest forward pass
\* (a return after the loop carries the epoch after the last pass).
StoppedAtIteration == pc = "returned" /\ result[2] = passes

\* The latest iteration was neither verified nor cut short for lack of an
\* optimizer: it computed the loss and reached the stopping heuristics.
ReachedHeuristics == InTrain /\ passes >= 1 /\ loss # None

\* Number of iterations of this call that reached the heuristics.
HeuristicIterations == steps + (IF ReachedHeuristics /\ StoppedAtIteration THEN 1 ELSE 0)

\* The flags of the last n iterations, as far as the deque holds them.
LastFlags(n) ==
    IF Len(loss_rising) <= n THEN loss_rising
    ELSE SubSeq(loss_rising, Len(loss_rising) - n + 1, Len(loss_rising))

CountSet(flags) == Cardinality({i \in DOMAIN flags : flags[i]})

LatestFlag == loss_rising[Len(loss_rising)]

\* ------------------------------------------------------------------ C1
\* C1: train returns verified=True at an iteration if and only if every margin
\* lower bound of that iteration's forward pass is > 0; it does so at the first
\* such pass, with that pass's epoch number, and never after a pass in which
\* some margin lower bound is <= 0.
C1_VerifiedIffAllMarginsPositive ==
    (InTrain /\ passes >= 1) =>
        /\ AllMarginsPositive <=> (pc = "returned" /\ result = <<TRUE, passes>>)
        /\ (pc = "returned" /\ result[1]) => (AllMarginsPositive /\ result[2] = epoch)

\* train returned True at its third pass, after two passes that were not verified.
C1_Witness ==
    /\ pc = "returned"
    /\ result = <<TRUE, 3>>
    /\ passes = 3
    /\ steps = 2

\* ------------------------------------------------------------------ C2
\* The early-stopping rule as the claim has it: at least k flags among those of
\* the last 2k iterations are set, and the latest flag is set.
EarlyStopBy2kWindow ==
    /\ CountSet(LastFlags(2 * early_stopping)) >= early_stopping
    /\ LatestFlag

\* C2 as stated: with early_stopping = k, train stops with not-verified at an
\* iteration exactly when at least k flags of the last 2k iterations are set
\* and the latest loss did not improve, for every value of lr_scheduling.
C2_Original ==
    (variant = "code" /\ early_stopping # None /\ ReachedHeuristics) =>
        (StoppedAtIteration <=> EarlyStopBy2kWindow)

\* C2 as amended: the window holds the flags of the last 2 * max(k, m)
\* iterations that reached the heuristics (m = lr_scheduling, 0 if absent);
\* train stops with not-verified at an iteration exactly when at least k flags
\* of that window are set, and the latest flag is then set.  When
\* lr_scheduling is absent or m <= k this is the rule of the 2k-window.
C2_EarlyStopOnSharedWindow ==
    (variant = "code" /\ early_stopping # None /\ ReachedHeuristics) =>
        LET k == early_stopping
            m == IF lr_scheduling = None THEN 0 ELSE lr_scheduling
            size == 2 * (IF k >= m THEN k ELSE m)
        IN  /\ Len(loss_rising) =
                   (IF HeuristicIterations <= size THEN HeuristicIterations ELSE size)
            /\ StoppedAtIteration <=> (CountSet(loss_rising) >= k)
            /\ StoppedAtIteration => (LatestFlag /\ result = <<FALSE, passes>>)
            /\ (m <= k) => (StoppedAtIteration <=> EarlyStopBy2kWindow)

\* Early stop with k = 2 decided by a flag older than the last 2k iterations:
\* lr_scheduling = 3 widens the window to 6.
C2_Witness ==
    /\ variant = "code"
    /\ early_stopping = 2
    /\ lr_scheduling = 3
    /\ ReachedHeuristics
    /\ StoppedAtIteration
    /\ result = <<FALSE, 6>>
    /\ CountSet(LastFlags(4)) = 1

\* ------------------------------------------------------------------ C3
\* C3: under early_stopping = k, a run with trainable slopes that is never
\* verified and whose loss exceeds the previous loss at each of k consecutive
\* iterations from the second returns (False, k + 1): it does not stop at an
\* earlier iteration and runs no pass k + 2.
C3_RisingLossStopsAtKPlus1 ==
    (variant = "code" /\ early_stopping # None /\ trainable
        /\ ReachedHeuristics /\ strictly) =>
        /\ passes <= early_stopping + 1
        /\ (passes = early_stopping + 1) =>
               (pc = "returned" /\ result = <<FALSE, early_stopping + 1>>)
        /\ (passes <= early_stopping) => ~StoppedAtIteration

\* k = 3: four passes with losses rising three times in a row, then the stop.
C3_Witness ==
    /\ variant = "code"
    /\ early_stopping = 3
    /\ trainable
    /\ ReachedHeuristics
    /\ strictly
    /\ passes = 4
    /\ result = <<FALSE, 4>>

\* ------------------------------------------------------------------ C4
\* An iteration of train (code/verifier.py) that computes the loss and
\* reaches the heuristics.
HeuristicsStep ==
    /\ variant = "code"
    /\ pc = "train"
    /\ passes' = passes + 1
    /\ loss' # None

\* The halving rule as the claim has it, free of early_stopping: at least m
\* flags among those of the last 2m iterations are set, and the latest is set.
HalveBy2mWindow(flags) ==
    LET n == 2 * lr_scheduling
        last == IF Len(flags) <= n THEN flags
                ELSE SubSeq(flags, Len(flags) - n + 1, Len(flags))
    IN  /\ CountSet(last) >= lr_scheduling
        /\ flags[Len(flags)]

\* C4 as stated: with lr_scheduling = m the learning rate becomes
\* max(lr/2, 1e-4) exactly at the iterations where at least m flags of the
\* last 2m iterations are set and the latest loss did not improve, whatever
\* the early_stopping threshold; it never drops below 1e-4.
C4_Original ==
    [][(HeuristicsStep /\ lr_scheduling # None) =>
           lr' = (IF HalveBy2mWindow(loss_rising')
                  THEN (IF lr \div 2 >= LrOne \div 10000 THEN lr \div 2 ELSE LrOne \div 10000)
                  ELSE lr)]_vars

\* C4 as amended: the window holds the flags of the last 2 * max(k, m)
\* iterations (k = early_stopping, 0 if absent); the learning rate becomes
\* max(lr/2, 1e-4) exactly at the iterations where at least m flags of that
\* window are set and the latest is set, and is unchanged at every other
\* iteration; it never drops below 1e-4.  When early_stopping is absent or
\* k <= m the halvings are those of the 2m-window; a larger k widens the
\* window and can add halvings.
C4_HalvingOnSharedWindow ==
    /\ [][(HeuristicsStep /\ lr_scheduling # None) =>
            LET halve == CountSet(loss_rising') >= lr_scheduling
                             /\ loss_rising'[Len(loss_rising')]
                k == IF early_stopping = None THEN 0 ELSE early_stopping
            IN  /\ lr' = (IF halve
                          THEN (IF lr \div 2 >= LrOne \div 10000 THEN lr \div 2
                                ELSE LrOne \div 10000)
                          ELSE lr)
                /\ (k <= lr_scheduling) => (halve <=> HalveBy2mWindow(loss_rising'))
                /\ HalveBy2mWindow(loss_rising') => halve]_vars
    /\ [][(HeuristicsStep /\ lr_scheduling = None) => lr' = lr]_vars
    /\ []((InTrain /\ trainable) => lr >= LrOne \div 10000)

\* The learning rate has been halved from 5.0 down to the floor, and a further
\* halving has left it there.
C4_Witness ==
    /\ variant = "code"
    /\ lr_scheduling = 1
    /\ ReachedHeuristics
    /\ lr = LrOne \div 10000
    /\ passes = 18
    /\ LatestFlag

\* ------------------------------------------------------------------ C8
\* C8 as stated: the loss of a vector of margin lower bounds is zero if and
\* only if every lower bound is > 0 (the verified test of the same iteration).
C8_Original ==
    (InTrain /\ passes >= 1) =>
        /\ (Loss(lower_bounds) = 0) <=> AllMarginsPositive
        /\ (loss # None) => (loss = 0 <=> AllMarginsPositive)

\* C8 as amended: the loss is zero if and only if every margin lower bound is
\* >= 0.  A verified pass (all > 0) has zero loss, but a pass with no negative
\* lower bound and some lower bound equal to 0 has zero loss and is not
\* verified.
C8_ZeroLossIffNoNegativeMargin ==
    (InTrain /\ passes >= 1) =>
        LET nonneg == \A i \in DOMAIN lower_bounds : lower_bounds[i] >= 0
        IN  /\ (Loss(lower_bounds) = 0) <=> nonneg
            /\ AllMarginsPositive => Loss(lower_bounds) = 0
            /\ (loss # None) => (loss = Loss(lower_bounds) /\ ~AllMarginsPositive)

\* An iteration computed a zero loss and was not verified.
C8_Witness ==
    /\ ReachedHeuristics
    /\ loss = 0
    /\ lower_bounds = <<0, 1>>
    /\ ~(pc = "returned" /\ result[1])

\* ------------------------------------------------------------------ C9
\* C9: with a finite max_epochs = N train terminates: it runs at most N
\* forward passes, each iteration adds one, in every state of the loop a step
\* of train is possible, and when the cap is reached without another stop
\* train returns (False, N + 1).  (Direct calls of train: the calls made by
\* analyze are followed for MaxIterAnalyze passes only.)
C9_CapTerminates ==
    (entry = "train" /\ max_epochs # None) =>
        /\ passes <= max_epochs
        /\ pc = "train" =>
              /\ epoch = passes + 1
              /\ ENABLED (TrainIteration \/ TrainIterationSrc \/ TrainExit)
              /\ (epoch > max_epochs) => ENABLED TrainExit
        /\ (pc = "returned" /\ epoch > max_epochs) =>
              (passes = max_epochs /\ result = <<FALSE, max_epochs + 1>>)

\* Three passes under max_epochs = 3, none verified, then the return.
C9_Witness ==
    /\ entry = "train"
    /\ max_epochs = 3
    /\ pc = "returned"
    /\ passes = 3
    /\ steps = 3
    /\ result = <<FALSE, 4>>

\* ------------------------------------------------------------------ C10
\* No transformer of the chain holds slope parameters.
NoSlopeParameters ==
    \A i \in DOMAIN transformer_layers :
        transformer_layers[i].kind = "LeakyReLU" => transformer_layers[i].params = 0

\* C10: when the chain has no trainable slope parameters and the first forward
\* pass is not verified, train returns (False, 1) at once: one pass, no loss,
\* no gradient step or clamp, no error.
C10_NoSlopesReturnsAtFirstPass ==
    (InTrain /\ NoSlopeParameters /\ passes >= 1) =>
        /\ pc = "returned"
        /\ passes = 1
        /\ steps = 0
        /\ loss = None
        /\ fault = NoFault
        /\ ~AllMarginsPositive => result = <<FALSE, 1>>

\* ------------------------------------------------------------------ C5
\* The stopping configuration has no cap and no threshold.
Degenerate ==
    /\ max_epochs = None
    /\ OrZero(early_stopping) = 0
    /\ lr_scheduling = None

\* C5: a call without max_epochs, early_stopping and lr_scheduling is rejected
\* before the optimization loop starts: no forward pass is run under it.
C5_DegenerateConfigRejected ==
    (entry = "analyze" /\ Degenerate) => passes = 0

\* ------------------------------------------------------------------ C6
\* The loop of analyze is at a layer whose kind is none of the five it knows.
AtUnknownLayer ==
    /\ pc = "walk"
    /\ depth < Len(NetLayers(net))
    /\ NetLayers(net)[depth + 1] \notin {"Flatten", "Linear", "ReLU", "LeakyReLU", "Conv2d"}

\* C6: when the loop of analyze meets a layer of unknown kind it raises a
\* fault whose message names that kind; the layer is not skipped, the chain
\* is not completed and train is not started for that call, and the fault
\* ends the call.
C6_UnknownLayerIsFatal ==
    /\ [][AtUnknownLayer =>
            /\ pc' = "raised"
            /\ fault' = [type |-> "Exception", message |-> NetLayers(net)[depth + 1]]
            /\ transformer_layers' = transformer_layers
            /\ depth' = depth]_vars
    /\ [](\A i \in DOMAIN net :
            (entry = "analyze" /\ net[i] \notin {"Flatten", "Linear", "ReLU", "LeakyReLU", "Conv2d"})
                => (depth < i /\ ~InTrain /\ passes = 0))
    /\ [][pc = "raised" => pc' = "raised"]_vars

\* analyze added the transformer of a first layer and raised at the second,
\* a Tanh.
C6_Witness ==
    /\ pc = "raised"
    /\ fault = [type |-> "Exception", message |-> "Tanh"]
    /\ depth = 1
    /\ Len(transformer_layers) >= 1
    /\ passes = 0

\* ------------------------------------------------------------------ C7
\* Neuron i of the input of forward is crossing: l < 0 < u.
Crossing(i) == x_bounds[1][i] < 0 /\ x_bounds[2][i] > 0

\* The upper bound of neuron i is the secant line: slope u / (u - l) on the
\* neuron itself, 0 elsewhere, bias -slope * l.
SecantUpper(i) ==
    LET l == x_bounds[1][i]
        u == x_bounds[2][i]
    IN  /\ \A j \in 1..NumNeurons :
              FracEq(relu_polygon.u_coefs[i][j], IF i = j THEN <<u, u - l>> ELSE <<0, 1>>)
        /\ FracEq(relu_polygon.u_bias[i], <<0 - (u * l), u - l>>)

\* Variant A: lower bound y >= 0 (zero row, zero bias).
VariantA(i) ==
    /\ \A j \in 1..NumNeurons : FracEq(relu_polygon.l_coefs[i][j], <<0, 1>>)
    /\ FracEq(relu_polygon.l_bias[i], <<0, 1>>)

\* Variant B: lower bound y >= x (identity row, zero bias).
VariantB(i) ==
    /\ \A j \in 1..NumNeurons :
          FracEq(relu_polygon.l_coefs[i][j], IF i = j THEN <<1, 1>> ELSE <<0, 1>>)
    /\ FracEq(relu_polygon.l_bias[i], <<0, 1>>)

\* C7: for each crossing neuron on its own, ReLUTransformer.forward outputs
\* Variant A exactly when u <= -l and Variant B exactly when u > -l; the
\* upper bound is the secant line in both cases.
C7_TieBreakPerNeuron ==
    (pc = "forward_done") =>
        \A i \in 1..NumNeurons :
            Crossing(i) =>
                /\ SecantUpper(i)
                /\ (x_bounds[2][i] <= 0 - x_bounds[1][i]) => (VariantA(i) /\ ~VariantB(i))
                /\ (x_bounds[2][i] > 0 - x_bounds[1][i]) => (VariantB(i) /\ ~VariantA(i))

\* ------------------------------------------------------------------ C14
\* Every layer of net is of one of the five kinds analyze dispatches on.
OnlyRecognizedKinds ==
    \A i \in DOMAIN net : net[i] \in {"Flatten", "Linear", "ReLU", "LeakyReLU", "Conv2d"}

\* C14: for a layer list made only of recognized kinds, in any order (a
\* Flatten after one or more Conv2d layers included), analyze never raises the
\* unknown-layer fault.
C14_RecognizedKindsNeverUnknown ==
    (entry = "analyze" /\ OnlyRecognizedKinds) =>
        ~(pc = "raised" /\ fault.type = "Exception")

\* ------------------------------------------------------------------ C11
\* The class of row k (1-based) of the final layer: the k-th class other than
\* the true label, in increasing order.
ClassOfRow(k) == IF k - 1 < true_label THEN k - 1 ELSE k

\* C11: for n classes (n >= 2) and true label t in 0..n-1 the synthetic final
\* layer has exactly n - 1 rows of n columns, one per class j # t in
\* increasing order of j, each with +1 in column t, -1 in column j and 0
\* elsewhere, and its bias is n - 1 zeros.
C11_FinalLayerIsMarginMatrix ==
    (pc = "final_layer_done") =>
        /\ Len(final_layer.weight) = n_classes - 1
        /\ \A k \in 1..(n_classes - 1) :
              /\ ClassOfRow(k) \in (0..(n_classes - 1)) \ {true_label}
              /\ (k > 1) => ClassOfRow(k - 1) < ClassOfRow(k)
              /\ Len(final_layer.weight[k]) = n_classes
              /\ \A c \in 0..(n_classes - 1) :
                    final_layer.weight[k][c + 1] =
                        (IF c = true_label THEN 1
                         ELSE IF c = ClassOfRow(k) THEN 0 - 1
                         ELSE 0)
        /\ Len(final_layer.bias) = n_classes - 1
        /\ \A k \in 1..(n_classes - 1) : final_layer.bias[k] = 0

\* Four classes, true label 2: rows for the classes 0, 1 and 3.
C11_Witness ==
    /\ pc = "final_layer_done"
    /\ n_classes = 4
    /\ true_label = 2
    /\ final_layer.weight = << <<0 - 1, 0, 1, 0>>, <<0, 0 - 1, 1, 0>>, <<0, 0, 1, 0 - 1>> >>
    /\ final_layer.bias = <<0, 0, 0>>

\* ------------------------------------------------------------------ C12
\* Polygon p has a neuron whose concrete bounds cross zero.
HasCrossing(p) ==
    \E i \in DOMAIN p.l_bound : FracLt(p.l_bound[i], Zero) /\ FracLt(Zero, p.u_bound[i])

\* C12: every Polygon built from an input box (eps >= 0, bounds clipped to
\* [0, 1]) by a chain of Linear and ReLU transformers has l_bound <= u_bound
\* at every neuron after back-substitution to the root.
C12_BoundsOrdered ==
    \A k \in DOMAIN polygons :
        \A i \in DOMAIN polygons[k].l_bound :
            FracLeq(polygons[k].l_bound[i], polygons[k].u_bound[i])

\* Linear, ReLU, Linear, ReLU applied to a box of positive width: both ReLU
\* inputs have a crossing neuron (their outputs' upper constraints are
\* secants, unlike the lower ones), and the last Polygon has a neuron with
\* l_bound < u_bound.
C12_Witness ==
    /\ Len(polygons) = 5
    /\ polygons[2].l_coefs = polygons[2].u_coefs
    /\ HasCrossing(polygons[2])
    /\ polygons[3].l_coefs # polygons[3].u_coefs
    /\ polygons[4].l_coefs = polygons[4].u_coefs
    /\ HasCrossing(polygons[4])
    /\ polygons[5].l_coefs # polygons[5].u_coefs
    /\ \E i \in DOMAIN polygons[5].l_bound :
           FracLt(polygons[5].l_bound[i], polygons[5].u_bound[i])

\* ------------------------------------------------------------------ C13
\* Every slope of every transformer lies in [negative_slope, 1].
SlopesInRange ==
    \A i \in DOMAIN alpha :
        \A n \in DOMAIN alpha[i] :
            negative_slope[i] <= alpha[i][n] /\ alpha[i][n] <= SlopeOne

\* C13: in train every gradient step is followed by a clamp of the slopes of
\* every activation transformer before the next forward pass: in every state
\* of train from which a forward pass starts (the first included) every slope
\* lies in [s, 1], and after a step each slope is the value the step left,
\* clamped to [s, 1].
C13_SlopesInRangeAtEveryPass ==
    (InTrain /\ alpha # <<>>) =>
        /\ SlopesInRange
        /\ (steps >= 1) =>
              \A i \in DOMAIN alpha :
                  \A n \in DOMAIN alpha[i] :
                      alpha[i][n] =
                          (IF stepped[i][n] < negative_slope[i] THEN negative_slope[i]
                           ELSE IF stepped[i][n] > SlopeOne THEN SlopeOne
                           ELSE stepped[i][n])

\* After two steps, the second left one slope below its negative slope and
\* another above 1; both were clamped and a third forward pass is due.
C13_Witness ==
    /\ pc = "train"
    /\ steps = 2
    /\ epoch <= max_epochs
    /\ Len(alpha) = 5
    /\ negative_slope[2] = 1
    /\ stepped[2] = <<0>>
    /\ alpha[2] = <<1>>
    /\ stepped[4][1] > SlopeOne
    /\ alpha[4] = <<SlopeOne>>
=============================================================================
